---- MODULE Spec2Model ----
(***************************************************************************)
(* State-machine model of goldenverba/verba_manager.py (class VerbaManager). *)
(*                                                                         *)
(* The manager owns a Weaviate client and three strategy managers.  The    *)
(* store (Weaviate) is modelled by its schema (classCount) and its objects.*)
(* Three specifications are given:                                         *)
(*   SpecSetup    : NumManagers constructors (__init__) run concurrently   *)
(*                  against one store, which may fail a class creation.    *)
(*   Spec         : one manager is constructed and then used (embedder     *)
(*                  selection, import, retrieval, reset), one call at a    *)
(*                  time.                                                  *)
(*   SpecRegistry : one manager is constructed and then its three setters  *)
(*                  are called; the reader and chunker selections have no  *)
(*                  effect on the store, so Spec leaves them out.          *)
(***************************************************************************)
EXTENDS Integers, Sequences, FiniteSets, TLC

VARIABLES
    verbaUrl,        \* os.environ["VERBA_URL"] ("" when unset)
    openaiInstalled, \* whether `import openai` succeeds
    pc,              \* pc[m]: position of manager m in __init__ / "ready"
    weaviate_type,   \* weaviate_type[m]: self.weaviate_type
    client,          \* client[m]: self.client (None before setup_client)
    clientsMade,     \* clientsMade[m]: number of weaviate.Client(...) built by m
    schemaIdx,       \* schemaIdx[m]: index in EnsureIds of the init_schemas call in progress
    ensureResult,    \* ensureResult[m][i]: how the i-th init_schemas call of m ended
    faults,          \* number of class creations the store has failed
    classCount,      \* store schema: classCount[c] = number of classes named c
    objects,         \* store objects, in insertion order
    nextId,          \* next object id the store assigns
    selected,        \* selected[r]: selected strategy of registry r of the manager
    stage,           \* position of the import_data call in progress ("idle" when none)
    batch,           \* working state of the import_data call in progress
    lastOp,          \* the manager's last call and what it returned
    imported         \* imported[id]: the Document of id as a successful import_data returned it

vars == <<verbaUrl, openaiInstalled, pc, weaviate_type, client, clientsMade,
          schemaIdx, ensureResult, faults, classCount, objects, nextId,
          selected, stage, batch, lastOp, imported>>

envVars == <<verbaUrl, openaiInstalled>>
setupVars == <<pc, weaviate_type, client, clientsMade, schemaIdx, ensureResult>>
storeVars == <<classCount, objects, nextId>>
useVars == <<selected, stage, batch, lastOp, imported>>

----------------------------------------------------------------------------
(* Bounds *)

NumManagers == 2
MaxFaults == 1
MaxBatch == 3
MaxDocs == 2

Managers == 1..NumManagers
\* The manager whose calls Spec follows.
Mgr == 1

\* Python's None.
None == [none |-> TRUE]

----------------------------------------------------------------------------
(* schema_manager: naming rule and the known identifiers *)

Letters == {"a", "d", "e", "i", "l", "m", "n", "o", "p", "t", "v", "x", "c",
            "A", "L", "M"}

\* schema_manager.strip_non_letters: keep only the ASCII letters, in order.
strip_non_letters(s) == SelectSeq(s, LAMBDA ch : ch \in Letters)

\* "Document_" + strip_non_letters(vectorizer)
ClassNameFor(vectorizer) == <<"Document_">> \o strip_non_letters(vectorizer)

\* schema_manager.VECTORIZERS ("text2vec-openai", abbreviated)
VECTORIZERS == << <<"t", "2", "v", "-", "o", "a", "i">> >>

\* schema_manager.EMBEDDINGS ("MiniLM")
EMBEDDINGS == << <<"M", "i", "n", "i", "L", "M">> >>

\* A faulty variant of EnsureIds: the second loop is missing.
EnsureIdsVectorizersOnly == VECTORIZERS

\* The identifiers __init__ calls init_schemas for, in call order.
EnsureIds == VECTORIZERS \o EMBEDDINGS

AllIds == {VECTORIZERS[i] : i \in 1..Len(VECTORIZERS)}
              \cup {EMBEDDINGS[i] : i \in 1..Len(EMBEDDINGS)}
ClassNames == {ClassNameFor(v) : v \in AllIds}

----------------------------------------------------------------------------
(* The store *)

\* client.schema.exists(name)
StoreClassExists(cc, name) == cc[name] > 0

\* client.schema.create_class: creating an existing class is a no-op.
StoreCreateClass(cc, name) ==
    IF cc[name] = 0 THEN [cc EXCEPT ![name] = 1] ELSE cc

\* client.schema.delete_all()
StoreDeleteAll(cc) == [c \in DOMAIN cc |-> 0]

----------------------------------------------------------------------------
(* VerbaManager.__init__ *)

\* A faulty variant of SetupType: the remote branch is never taken.
SetupTypeAlwaysEmbedded(url) == "Weaviate Embedded"

\* setup_client: the target follows from VERBA_URL alone.
SetupType(url) ==
    IF url # "" THEN "Weaviate Cluster" ELSE "Weaviate Embedded"

\* setup_client builds the client for the chosen target; the embedded branch
\* reads openai.api_key, which is unbound when `import openai` failed.
SetupClient(m) ==
    /\ pc[m] = "new"
    /\ IF verbaUrl = "" /\ ~openaiInstalled
       THEN /\ pc' = [pc EXCEPT ![m] = "crashed"]
            /\ weaviate_type' = [weaviate_type EXCEPT ![m] = SetupType(verbaUrl)]
            /\ UNCHANGED <<client, clientsMade, schemaIdx>>
       ELSE /\ pc' = [pc EXCEPT ![m] = "check"]
            /\ weaviate_type' = [weaviate_type EXCEPT ![m] = SetupType(verbaUrl)]
            /\ client' = [client EXCEPT ![m] =
                             [target |-> SetupType(verbaUrl), owner |-> m]]
            /\ clientsMade' = [clientsMade EXCEPT ![m] = @ + 1]
            /\ schemaIdx' = [schemaIdx EXCEPT ![m] = 1]
    /\ UNCHANGED <<envVars, ensureResult, faults, storeVars, useVars>>

\* What __init__ keeps of the init_schemas results: the calls are statements,
\* their values are dropped.
RecordedSchemaFailures(m) == {}

\* After the i-th init_schemas call returned r: the loop goes on to the next
\* identifier, or __init__ returns.
AfterEnsure(m, r) ==
    /\ ensureResult' = [ensureResult EXCEPT ![m][schemaIdx[m]] = r]
    /\ IF schemaIdx[m] < Len(EnsureIds)
       THEN /\ schemaIdx' = [schemaIdx EXCEPT ![m] = @ + 1]
            /\ pc' = [pc EXCEPT ![m] = "check"]
       ELSE /\ schemaIdx' = schemaIdx
            /\ pc' = [pc EXCEPT ![m] = "ready"]

\* init_schemas(client, id, False, True), first step: the existence check.
\* An existing class is left alone (check = True) and the call succeeds.
EnsureCheck(m) ==
    /\ pc[m] = "check"
    /\ schemaIdx[m] <= Len(EnsureIds)
    /\ IF StoreClassExists(classCount, ClassNameFor(EnsureIds[schemaIdx[m]]))
       THEN AfterEnsure(m, "exists")
       ELSE /\ pc' = [pc EXCEPT ![m] = "create"]
            /\ UNCHANGED <<schemaIdx, ensureResult>>
    /\ UNCHANGED <<envVars, weaviate_type, client, clientsMade, faults,
                   storeVars, useVars>>

\* init_schemas, second step: the class is created.
EnsureCreate(m) ==
    /\ pc[m] = "create"
    /\ classCount' = StoreCreateClass(classCount, ClassNameFor(EnsureIds[schemaIdx[m]]))
    /\ AfterEnsure(m, "created")
    /\ UNCHANGED <<envVars, weaviate_type, client, clientsMade, faults,
                   objects, nextId, useVars>>

\* init_schemas, second step, when the store fails the creation: the call
\* reports the failure to __init__.
EnsureCreateFails(m) ==
    /\ pc[m] = "create"
    /\ faults < MaxFaults
    /\ faults' = faults + 1
    /\ AfterEnsure(m, "failed")
    /\ UNCHANGED <<envVars, weaviate_type, client, clientsMade, storeVars, useVars>>

----------------------------------------------------------------------------
(* Initial state *)

DefaultSelected == [reader |-> "SimpleReader", chunker |-> "WordChunker",
                    embedder |-> "ADAEmbedder"]

EmptyBatch == [inputs |-> <<>>, docType |-> "", docs |-> <<>>,
               readFailures |-> <<>>, idx |-> 0, failed |-> FALSE,
               written |-> {}, targetMissing |-> FALSE]

Init ==
    /\ verbaUrl \in {"", "https://cluster"}
    /\ openaiInstalled \in BOOLEAN
    /\ pc = [m \in Managers |-> "new"]
    /\ weaviate_type = [m \in Managers |-> ""]
    /\ client = [m \in Managers |-> None]
    /\ clientsMade = [m \in Managers |-> 0]
    /\ schemaIdx = [m \in Managers |-> 0]
    /\ ensureResult = [m \in Managers |-> [i \in 1..Len(EnsureIds) |-> "none"]]
    /\ faults = 0
    /\ classCount = [c \in ClassNames |-> 0]
    /\ objects = <<>>
    /\ nextId = 1
    /\ selected = DefaultSelected
    /\ stage = "idle"
    /\ batch = EmptyBatch
    /\ lastOp = [op |-> "none"]
    /\ imported = <<>>

----------------------------------------------------------------------------
(* SpecSetup: concurrent construction *)

NextSetup ==
    \E m \in Managers :
        \/ SetupClient(m)
        \/ EnsureCheck(m)
        \/ EnsureCreate(m)
        \/ EnsureCreateFails(m)

SpecSetup == Init /\ [][NextSetup]_vars

----------------------------------------------------------------------------
(* Strategy registries (ReaderManager, ChunkerManager, EmbeddingManager) *)

Registered ==
    [reader |-> {"SimpleReader", "PathReader"},
     chunker |-> {"WordChunker", "SentenceChunker"},
     embedder |-> {"ADAEmbedder", "MiniLMEmbedder"}]

\* Names a caller may pass to a setter: the registered ones and one that is not.
StrategyNames(r) == Registered[r] \cup {"Unknown"}

\* Embedder.vectorizer of each registered embedder.
EmbedderVectorizer ==
    [ADAEmbedder |-> VECTORIZERS[1], MiniLMEmbedder |-> EMBEDDINGS[1]]

\* set_reader / set_chunker / set_embedder of a strategy manager: a registered
\* name becomes the selection and True is returned; any other name leaves the
\* selection alone and False is returned.
set_strategy(registered, current, name) ==
    IF name \in registered
    THEN [ok |-> TRUE, sel |-> name]
    ELSE [ok |-> FALSE, sel |-> current]

Idle == pc[Mgr] = "ready" /\ stage = "idle"

\* One setter of VerbaManager: delegates to the manager of registry r and
\* returns what it returned.
SetStrategy(r, name) ==
    LET res == set_strategy(Registered[r], selected[r], name) IN
    /\ Idle
    /\ selected' = [selected EXCEPT ![r] = res.sel]
    /\ lastOp' = [op |-> "select", registry |-> r, name |-> name,
                  ret |-> res.ok, before |-> selected[r]]
    /\ UNCHANGED <<envVars, setupVars, faults, storeVars, stage, batch, imported>>

reader_set_reader(name) == SetStrategy("reader", name)

\* A faulty variant of chunker_set_chunker: the call goes to the reader manager.
chunker_set_chunker_via_reader(name) ==
    LET res == set_strategy(Registered["reader"], selected["reader"], name) IN
    /\ Idle
    /\ selected' = [selected EXCEPT !["reader"] = res.sel]
    /\ lastOp' = [op |-> "select", registry |-> "chunker", name |-> name,
                  ret |-> res.ok, before |-> selected["chunker"]]
    /\ UNCHANGED <<envVars, setupVars, faults, storeVars, stage, batch, imported>>

chunker_set_chunker(name) == SetStrategy("chunker", name)

embedder_set_embedder(name) == SetStrategy("embedder", name)

----------------------------------------------------------------------------
(* import_data *)

\* One raw input of a batch: a file name, its path, and whether the selected
\* Reader can parse it.
RawInputs ==
    {[fileName |-> "a.txt", path |-> "/in/a.txt", wellFormed |-> TRUE],
     [fileName |-> "b.md", path |-> "/in/b.md", wellFormed |-> TRUE],
     [fileName |-> "c.bin", path |-> "/in/c.bin", wellFormed |-> FALSE]}

DocTypes == {"Documentation", "Blog"}

Batches == UNION {[1..n -> RawInputs] : n \in 1..MaxBatch}

WellFormedCount(inputs) == Len(SelectSeq(inputs, LAMBDA x : x.wellFormed))

\* The Document the Reader builds from one input.
NewDocument(inp, docType) ==
    [name |-> inp.fileName, type |-> docType, link |-> inp.path,
     chunked |-> FALSE, id |-> 0]

\* reader_manager.load: one Document per input the Reader can parse, in input order.
ReaderLoad(inputs, docType) ==
    LET ok == SelectSeq(inputs, LAMBDA x : x.wellFormed) IN
    [i \in 1..Len(ok) |-> NewDocument(ok[i], docType)]

\* The inputs the Reader could not parse, by position, as the Reader records them.
ReaderFailures(inputs) ==
    SelectSeq([i \in 1..Len(inputs) |-> i], LAMBDA i : ~inputs[i].wellFormed)

\* chunker_manager.chunk: every Document gets its chunks.
ChunkerChunk(docs) == [i \in 1..Len(docs) |-> [docs[i] EXCEPT !.chunked = TRUE]]

\* A faulty variant of ChunkStageInput: a batch with a read failure is given up.
ChunkStageInputAbortOnFailure(loaded, failures) ==
    IF failures # <<>> THEN <<>> ELSE loaded

\* import_data hands everything load returned to the chunker.
ChunkStageInput(loaded, failures) == loaded

\* A faulty variant of StageAfterRead: the chunker call is skipped.
StageAfterReadSkipsChunk == "embed"

\* import_data: load, then chunk, then embed.
StageAfterRead == "chunk"

\* A faulty variant of ImportReturn: the documents are returned whatever embed reported.
ImportReturnAlways(embedOk, docs) == [docs |-> docs]

\* import_data returns the documents when embed returned True, None otherwise.
ImportReturn(embedOk, docs) == IF embedOk THEN [docs |-> docs] ELSE None

\* The class the selected embedder writes to.
EmbedClassName == ClassNameFor(EmbedderVectorizer[selected.embedder])

\* import_data is called and the Reader loads the batch.
ImportRead(inputs, docType) ==
    /\ Idle
    /\ nextId + WellFormedCount(inputs) - 1 <= MaxDocs
    /\ stage' = StageAfterRead
    /\ batch' = [EmptyBatch EXCEPT !.inputs = inputs, !.docType = docType,
                                   !.docs = ReaderLoad(inputs, docType),
                                   !.readFailures = ReaderFailures(inputs),
                                   !.idx = 1]
    /\ lastOp' = [op |-> "import_data"]
    /\ UNCHANGED <<envVars, setupVars, faults, storeVars, selected, imported>>

\* The Chunker chunks the loaded Documents.
ImportChunk ==
    /\ stage = "chunk"
    /\ stage' = "embed"
    /\ batch' = [batch EXCEPT
                   !.docs = ChunkerChunk(ChunkStageInput(batch.docs, batch.readFailures))]
    /\ UNCHANGED <<envVars, setupVars, faults, storeVars, selected, lastOp, imported>>

\* The object the Embedder stores for a Document.
StoredObject(d, id, cls) ==
    [id |-> id, class |-> cls, doc_name |-> d.name, doc_type |-> d.type,
     doc_link |-> d.link]

\* embed, one Document: the vectors are computed and the Document is stored
\* in the class of the selected embedder.
ImportEmbedStore ==
    LET d == batch.docs[batch.idx] IN
    /\ stage = "embed"
    /\ batch.idx <= Len(batch.docs)
    /\ StoreClassExists(classCount, EmbedClassName)
    /\ objects' = Append(objects, StoredObject(d, nextId, EmbedClassName))
    /\ nextId' = nextId + 1
    /\ batch' = [batch EXCEPT !.docs[batch.idx].id = nextId,
                              !.idx = @ + 1,
                              !.written = @ \cup {nextId}]
    /\ UNCHANGED <<envVars, setupVars, faults, classCount, selected, stage,
                   lastOp, imported>>

\* embed, one Document, when the class of the selected embedder does not exist:
\* the store either rejects the write or creates the class on the fly
\* (auto-schema), depending on its configuration.
ImportEmbedNoClass ==
    LET d == batch.docs[batch.idx] IN
    /\ stage = "embed"
    /\ batch.idx <= Len(batch.docs)
    /\ ~StoreClassExists(classCount, EmbedClassName)
    /\ \/ /\ batch' = [batch EXCEPT !.idx = @ + 1, !.failed = TRUE,
                                    !.targetMissing = TRUE]
          /\ UNCHANGED storeVars
       \/ /\ classCount' = StoreCreateClass(classCount, EmbedClassName)
          /\ objects' = Append(objects, StoredObject(d, nextId, EmbedClassName))
          /\ nextId' = nextId + 1
          /\ batch' = [batch EXCEPT !.docs[batch.idx].id = nextId,
                                    !.idx = @ + 1,
                                    !.written = @ \cup {nextId},
                                    !.targetMissing = TRUE]
    /\ UNCHANGED <<envVars, setupVars, faults, selected, stage, lastOp, imported>>

\* embed, one Document, when the embedding backend fails: nothing is stored
\* for it and embed will return False.
ImportEmbedFails ==
    /\ stage = "embed"
    /\ batch.idx <= Len(batch.docs)
    /\ batch' = [batch EXCEPT !.idx = @ + 1, !.failed = TRUE]
    /\ UNCHANGED <<envVars, setupVars, faults, storeVars, selected, stage,
                   lastOp, imported>>

\* embed has returned; import_data returns.
ImportResult ==
    /\ stage = "embed"
    /\ batch.idx > Len(batch.docs)
    /\ stage' = "idle"
    /\ lastOp' = [op |-> "import", embedOk |-> ~batch.failed,
                  ret |-> ImportReturn(~batch.failed, batch.docs),
                  docs |-> batch.docs, written |-> batch.written]
    /\ imported' =
         IF ImportReturn(~batch.failed, batch.docs) = None
         THEN imported
         ELSE [id \in DOMAIN imported \cup batch.written |->
                 IF id \in batch.written
                 THEN LET d == CHOOSE x \in {batch.docs[i] : i \in 1..Len(batch.docs)} :
                                   x.id = id
                      IN [name |-> d.name, type |-> d.type, link |-> d.link,
                          class |-> EmbedClassName]
                 ELSE imported[id]]
    /\ batch' = EmptyBatch
    /\ UNCHANGED <<envVars, setupVars, faults, storeVars, selected>>

----------------------------------------------------------------------------
(* Retrieval and reset *)

\* A faulty variant of RetrieveClassName: the vectorizer is used as it is.
RetrieveClassNameUnstripped(vectorizer) == <<"Document_">> \o vectorizer

\* "Document_" + strip_non_letters(selected_embedder.vectorizer)
RetrieveClassName(vectorizer) == ClassNameFor(vectorizer)

\* What subscripting the reply raises when the queried class does not exist:
\* the reply then holds errors and either no "data" or a null one.
MissingClassErrors == {"KeyError", "TypeError"}

\* The objects of class cls, as the query returns them.
StoreQuery(objs, cls) == SelectSeq(objs, LAMBDA o : o.class = cls)

\* client.data_object.get_by_id(doc_id, class_name): the object, or None.
StoreGetById(objs, id, cls) ==
    LET hit == SelectSeq(objs, LAMBDA o : o.id = id /\ o.class = cls) IN
    IF hit = <<>> THEN None ELSE hit[1]

retrieve_all_documents ==
    LET cls == RetrieveClassName(EmbedderVectorizer[selected.embedder]) IN
    /\ Idle
    /\ IF cls \in DOMAIN classCount /\ StoreClassExists(classCount, cls)
       THEN lastOp' = [op |-> "list", afterReset |-> lastOp.op = "reset",
                       raised |-> "", ret |-> StoreQuery(objects, cls)]
       ELSE \E exc \in MissingClassErrors :
               lastOp' = [op |-> "list", afterReset |-> lastOp.op = "reset",
                          raised |-> exc, ret |-> None]
    /\ UNCHANGED <<envVars, setupVars, faults, storeVars, selected, stage,
                   batch, imported>>

retrieve_document(doc_id) ==
    LET cls == RetrieveClassName(EmbedderVectorizer[selected.embedder]) IN
    /\ Idle
    /\ lastOp' = [op |-> "fetch", id |-> doc_id, class |-> cls,
                  ret |-> StoreGetById(objects, doc_id, cls)]
    /\ UNCHANGED <<envVars, setupVars, faults, storeVars, selected, stage,
                   batch, imported>>

\* reset: client.schema.delete_all() deletes every class with its objects.
reset ==
    /\ Idle
    /\ classCount' = StoreDeleteAll(classCount)
    /\ objects' = <<>>
    /\ imported' = <<>>
    /\ lastOp' = [op |-> "reset"]
    /\ UNCHANGED <<envVars, setupVars, faults, nextId, selected, stage, batch>>

----------------------------------------------------------------------------
(* Spec: one manager, constructed and then used *)

Next ==
    \/ SetupClient(Mgr)
    \/ EnsureCheck(Mgr)
    \/ EnsureCreate(Mgr)
    \/ \E name \in StrategyNames("embedder") : embedder_set_embedder(name)
    \/ \E inputs \in Batches, docType \in DocTypes : ImportRead(inputs, docType)
    \/ ImportChunk
    \/ ImportEmbedStore
    \/ ImportEmbedNoClass
    \/ ImportEmbedFails
    \/ ImportResult
    \/ retrieve_all_documents
    \/ \E doc_id \in 1..MaxDocs : retrieve_document(doc_id)
    \/ reset

Spec == Init /\ [][Next]_vars

----------------------------------------------------------------------------
(* SpecRegistry: one manager, constructed, and then only the setters *)

NextRegistry ==
    \/ SetupClient(Mgr)
    \/ EnsureCheck(Mgr)
    \/ EnsureCreate(Mgr)
    \/ \E name \in StrategyNames("reader") : reader_set_reader(name)
    \/ \E name \in StrategyNames("chunker") : chunker_set_chunker(name)
    \/ \E name \in StrategyNames("embedder") : embedder_set_embedder(name)

SpecRegistry == Init /\ [][NextRegistry]_vars

----------------------------------------------------------------------------
(* Properties *)

Range(f) == {f[i] : i \in DOMAIN f}

SelectedClass == ClassNameFor(EmbedderVectorizer[selected.embedder])

\* C1: whenever the Embed stage of import_data writes to the store, the class
\* Document_<sanitized vectorizer of the selected embedder> already exists.
C1_SchemaExistsBeforeWrite == ~batch.targetMissing

C3_FailuresAccumulated ==
    \A m \in Managers :
        /\ \A i \in DOMAIN ensureResult[m] :
               ensureResult[m][i] = "failed" => EnsureIds[i] \in RecordedSchemaFailures(m)
        /\ pc[m] = "ready" =>
               \A i \in DOMAIN ensureResult[m] : ensureResult[m][i] # "none"

\* C4: a setter returns true iff the name is registered; on true the name is
\* the selection of that registry, on false the selection of that registry is
\* what it was before the call.
C4_SelectContract ==
    lastOp.op = "select" =>
        /\ lastOp.ret = (lastOp.name \in Registered[lastOp.registry])
        /\ lastOp.ret => selected[lastOp.registry] = lastOp.name
        /\ ~lastOp.ret => selected[lastOp.registry] = lastOp.before

\* C4 witness: an unregistered chunker name was refused while a chunker other
\* than the default one was selected, and that chunker is still selected.
C4_Witness ==
    /\ lastOp.op = "select"
    /\ lastOp.registry = "chunker"
    /\ lastOp.name = "Unknown"
    /\ ~lastOp.ret
    /\ selected.chunker = "SentenceChunker"

\* C5: import_data returns the processed Documents iff embed reported success;
\* otherwise it returns None, and what the batch wrote is still in the store.
C5_ImportResult ==
    lastOp.op = "import" =>
        /\ (lastOp.ret # None) = lastOp.embedOk
        /\ lastOp.embedOk =>
               /\ lastOp.ret = [docs |-> lastOp.docs]
               /\ \A i \in 1..Len(lastOp.docs) :
                      lastOp.docs[i].chunked /\ lastOp.docs[i].id \in lastOp.written
        /\ ~lastOp.embedOk =>
               /\ lastOp.ret = None
               /\ \A id \in lastOp.written : \E i \in 1..Len(objects) : objects[i].id = id

\* C5 witness: a batch failed after one of its Documents had been stored.
C5_Witness ==
    /\ lastOp.op = "import"
    /\ ~lastOp.embedOk
    /\ lastOp.written # {}

C7_ResetThenListEmpty ==
    (lastOp.op = "list" /\ lastOp.afterReset) =>
        (lastOp.raised = "" /\ lastOp.ret = <<>>)

\* What retrieve_document returned is the Document as import_data returned it.
SameDocument(obj, d) ==
    /\ obj # None
    /\ obj.doc_name = d.name
    /\ obj.doc_type = d.type
    /\ obj.doc_link = d.link

\* C8 as stated: a Document returned by a successful import_data is fetched
\* back with the same name, type and link, from the class it was written to,
\* whatever was called in between, reset excepted.
C8_RoundTripAnySequence ==
    (lastOp.op = "fetch" /\ lastOp.id \in DOMAIN imported) =>
        /\ SameDocument(lastOp.ret, imported[lastOp.id])
        /\ lastOp.class = imported[lastOp.id].class

\* C8 amended: the same, provided the embedder selected at the fetch names the
\* class the embedder selected at the import named.
C8_RoundTripSameClass ==
    (/\ lastOp.op = "fetch"
     /\ lastOp.id \in DOMAIN imported
     /\ SelectedClass = imported[lastOp.id].class) =>
        /\ SameDocument(lastOp.ret, imported[lastOp.id])
        /\ lastOp.class = imported[lastOp.id].class

\* C8 witness: a Document imported under the OpenAI vectorizer was fetched back.
C8_Witness ==
    /\ lastOp.op = "fetch"
    /\ lastOp.id \in DOMAIN imported
    /\ SelectedClass = imported[lastOp.id].class
    /\ SelectedClass = ClassNameFor(VECTORIZERS[1])
    /\ lastOp.ret # None

\* C9: a constructed manager holds the one client it built in setup_client,
\* for the target VERBA_URL decided: remote when set, embedded otherwise.
C9_ClientDecidedOnce ==
    \A m \in Managers :
        pc[m] \notin {"new", "crashed"} =>
            /\ weaviate_type[m] =
                   (IF verbaUrl # "" THEN "Weaviate Cluster" ELSE "Weaviate Embedded")
            /\ client[m] = [target |-> weaviate_type[m], owner |-> m]
            /\ clientsMade[m] = 1

\* C9 witness: a manager on a remote cluster after an import, a selection
\* and a reset.
C9_Witness ==
    /\ pc[Mgr] = "ready"
    /\ verbaUrl # ""
    /\ lastOp.op = "reset"
    /\ nextId > 1
    /\ selected.embedder = "MiniLMEmbedder"
    /\ weaviate_type[Mgr] = "Weaviate Cluster"

\* C10: within one import_data call the Chunk stage starts after the whole
\* batch was read, the Embed stage after the whole batch was chunked, and
\* nothing is written before the batch was chunked.
C10_StagesInOrder ==
    /\ stage = "chunk" =>
           /\ Len(batch.docs) + Len(batch.readFailures) = Len(batch.inputs)
           /\ batch.written = {}
    /\ stage = "embed" => \A i \in 1..Len(batch.docs) : batch.docs[i].chunked
    /\ batch.written # {} =>
           /\ stage = "embed"
           /\ \A i \in 1..Len(batch.docs) : batch.docs[i].chunked

\* C10 witness: the Embed stage has stored one Document of a batch of two.
C10_Witness ==
    /\ stage = "embed"
    /\ Len(batch.docs) = 2
    /\ batch.idx = 2
    /\ Cardinality(batch.written) = 1

====
